---- MODULE Spec2Model ----
(***************************************************************************)
(* A model of pkg/proxy/proxy.go of red-tape: the delay-injecting          *)
(* http.RoundTripper built by MakeRoundTripper and the reverse proxy       *)
(* assembled around it by MakeProxy.                                       *)
(*                                                                         *)
(* Numbers.  The float64 values of the configuration and of the generator  *)
(* are non-negative fixed-point numbers counted in 1/FracDen of a          *)
(* millisecond; time.Duration is Go's int64 count of nanoseconds.  TLC's   *)
(* integers are 32 bits wide, so both are kept as little-endian sequences  *)
(* of 16-bit limbs and the int64 arithmetic of the source (the product     *)
(* with time.Millisecond) is carried out exactly, modulo 2^64.             *)
(***************************************************************************)
EXTENDS Integers, Sequences, FiniteSets, TLC

\* ------------------------------------------------------------------------
\* Limb arithmetic on naturals (little-endian, base 2^16)

LimbBase == 65536

Int64Limbs == 64 \div 16

\* The recursions are functions, whose arguments are values: each limb
\* sequence is worked out once, where it is passed.

\* limbs i.. of x * k, with carry carried in, for a small factor k (k < 2^15)
NatMulC[x \in Seq(Nat), k \in Nat, i \in Nat, carry \in Nat] ==
    IF i > Len(x)
    THEN IF carry = 0 THEN <<>> ELSE <<carry>>
    ELSE <<(x[i] * k + carry) % LimbBase>>
             \o NatMulC[x, k, i + 1, (x[i] * k + carry) \div LimbBase]

\* x * k
NatMul(x, k) == NatMulC[x, k, 1, 0]

\* x * k^n
NatMulPow[x \in Seq(Nat), k \in Nat, n \in Nat] ==
    IF n = 0 THEN x ELSE NatMulPow[NatMul(x, k), k, n - 1]

\* long division of x by a small divisor k (k < 2^15), from limb i down,
\* with remainder r carried in: the quotient's limbs 1..i
NatDivR[x \in Seq(Nat), k \in Nat, i \in Nat, r \in Nat] ==
    IF i = 0
    THEN <<>>
    ELSE NatDivR[x, k, i - 1, (r * LimbBase + x[i]) % k]
             \o <<(r * LimbBase + x[i]) \div k>>

\* x \div k
NatDiv(x, k) == NatDivR[x, k, Len(x), 0]

\* limb i of x (missing high limbs are zero)
Limb(x, i) == IF i <= Len(x) THEN x[i] ELSE 0

\* a against b on limbs i down to 1
NatCmpR[a \in Seq(Nat), b \in Seq(Nat), i \in Nat] ==
    IF i = 0 THEN 0
    ELSE IF Limb(a, i) < Limb(b, i) THEN -1
    ELSE IF Limb(a, i) > Limb(b, i) THEN 1
    ELSE NatCmpR[a, b, i - 1]

\* -1, 0 or 1 as a < b, a = b, a > b
NatCmp(a, b) == NatCmpR[a, b, IF Len(a) > Len(b) THEN Len(a) ELSE Len(b)]

\* x modulo LimbBase^n, as exactly n limbs
Fit(x, n) ==
    [xv \in {x} |-> [i \in 1..n |-> IF i <= Len(xv) THEN xv[i] ELSE 0]][x]

\* ------------------------------------------------------------------------
\* Go's numbers

Nil == "nil"

\* +Inf of float64 (a draw from a generator whose Rate is 0): one limb more
\* than any finite value
Inf == [i \in 1..(64 \div 16 + 1) |-> IF i = 64 \div 16 + 1 THEN 1 ELSE 0]

\* no float64 at all (nothing was drawn)
NoDraw == <<>>

\* float64 values are counted in 1/FracDen ms
FracDen == 4

\* the float64 n/FracDen, for a small n
Float(n) == Fit(<<n>>, Int64Limbs)

\* a float64 rate num * 1000^(-kexp)
Rate(num, kexp) == [num |-> num, kexp |-> kexp]

\* rate <= 0
RateLeq0(r) == r.num <= 0

\* a > b on float64 (b finite)
FloatGt(a, b) == a = Inf \/ NatCmp(a, b) = 1

\* time.Duration is an int64 of nanoseconds, held as its 64 bits
ZeroDuration == Fit(<<>>, Int64Limbs)

\* the int64 d is negative (two's complement sign bit)
DurationNeg(d) == d[Int64Limbs] >= LimbBase \div 2

\* time.Duration(s) * time.Millisecond, for a finite float64 s >= 0 below
\* 2^63: the conversion truncates toward zero, the product wraps modulo 2^64
ToDuration(s) ==
    LET whole == NatDiv(s, FracDen)
    IN  Fit(NatMul(NatMul(whole, 1000), 1000), Int64Limbs)

\* the duration d, as a real number of nanoseconds, lies in [0, f ms]
DurationIn(d, f) ==
    /\ ~DurationNeg(d)
    /\ NatCmp(NatMul(d, FracDen), NatMul(NatMul(f, 1000), 1000)) <= 0

\* the duration d is exactly f ms
DurationIs(d, f) ==
    /\ ~DurationNeg(d)
    /\ NatCmp(NatMul(d, FracDen), NatMul(NatMul(f, 1000), 1000)) = 0

\* ------------------------------------------------------------------------
\* The generator behind distuv.Exponential{Rate: r} with Src == nil: the
\* process-wide source of the rand package.  Its state is a position in a
\* fixed cycle of ExpFloat64 values.

ExpTable == <<Float(4), Float(28), Float(80)>>

RngStates == 1..Len(ExpTable)

ExpFloat64(st) == ExpTable[st]

RngNext(st) == (st % Len(ExpTable)) + 1

\* distuv.Exponential.Rand: ExpFloat64() / Rate
Rand(rng, st) ==
    IF rng.Rate.num = 0
    THEN Inf
    ELSE Fit(NatDiv(NatMulPow[ExpFloat64(st), 1000, rng.Rate.kexp], rng.Rate.num),
             Int64Limbs)

\* ------------------------------------------------------------------------
\* net/url.Parse on strings held as sequences of characters

Letters == {"h", "t", "p", "d"}

RECURSIVE getSchemeAt(_, _)
getSchemeAt(raw, i) ==
    IF i > Len(raw)
    THEN [scheme |-> <<>>, rest |-> raw, err |-> Nil]
    ELSE IF raw[i] \in Letters
    THEN getSchemeAt(raw, i + 1)
    ELSE IF raw[i] = ":"
    THEN IF i = 1
         THEN [scheme |-> <<>>, rest |-> <<>>, err |-> "missing protocol scheme"]
         ELSE [scheme |-> SubSeq(raw, 1, i - 1),
               rest |-> SubSeq(raw, i + 1, Len(raw)), err |-> Nil]
    ELSE [scheme |-> <<>>, rest |-> raw, err |-> Nil]

getScheme(raw) == getSchemeAt(raw, 1)

RECURSIVE IndexFrom(_, _, _)
\* the first position >= i of character c in s, or Len(s) + 1
IndexFrom(s, c, i) ==
    IF i > Len(s) THEN Len(s) + 1
    ELSE IF s[i] = c THEN i ELSE IndexFrom(s, c, i + 1)

HasPrefix2(s, c) == Len(s) >= 2 /\ s[1] = c /\ s[2] = c

urlParse(raw) ==
    LET g == getScheme(raw)
        failed(e) == [err |-> e, Scheme |-> <<>>, Host |-> <<>>, Path |-> <<>>]
    IN  IF g.err # Nil THEN failed(g.err)
        ELSE IF g.scheme = <<>> /\ ~(Len(g.rest) >= 1 /\ g.rest[1] = "/")
                /\ IndexFrom(g.rest, ":", 1) < IndexFrom(g.rest, "/", 1)
        THEN failed("first path segment in URL cannot contain colon")
        ELSE IF HasPrefix2(g.rest, "/")
        THEN LET stop == IndexFrom(g.rest, "/", 3)
                 host == SubSeq(g.rest, 3, stop - 1)
             IN  IF IndexFrom(host, " ", 1) <= Len(host)
                 THEN failed("invalid character in host name")
                 ELSE [err |-> Nil, Scheme |-> g.scheme, Host |-> host,
                       Path |-> SubSeq(g.rest, stop, Len(g.rest))]
        ELSE [err |-> Nil, Scheme |-> g.scheme, Host |-> <<>>, Path |-> g.rest]

\* url.URL.IsAbs
IsAbs(u) == u.Scheme # <<>>

\* ------------------------------------------------------------------------
\* Inputs

\* concurrent requests per transport
NumReqs == 2

Reqs == 1..NumReqs

\* "A" is the transport of a run; "B" is the transport of a second,
\* independent run (another process) of the same program
Transports == {"A", "B"}

AbsURL == <<"h", "t", "t", "p", ":", "/", "/", "d">>
RelURL == <<"d">>
NoSchemeURL == <<":", "d">>
BadHostURL == <<"h", "t", "t", "p", ":", "/", "/", "d", " ", "d">>

DestURLs == {AbsURL, RelURL, NoSchemeURL, BadHostURL}

\* ProbDrop, in hundredths
ProbDrops == {0, 50, 100}

Seeds == {0, 7}

\* 1e13 ms
HugeMax == Fit(NatMulPow[Float(10 * FracDen), 1000, 4], Int64Limbs)

\* (rate, max) of one delay: rate <= 0; rate 2 with max 0.75, 2.5;
\* rate 1e-12 with max 2.5 and 1e13
DelayParams ==
    { [rate |-> Rate(-1, 0), max |-> Float(2 * FracDen + 2)],
      [rate |-> Rate(0, 0),  max |-> Float(3)],
      [rate |-> Rate(2, 0),  max |-> Float(3)],
      [rate |-> Rate(2, 0),  max |-> Float(2 * FracDen + 2)],
      [rate |-> Rate(1, 4),  max |-> HugeMax] }

\* ProxyConfig
Config(u, p, pre, post, sd) ==
    [DestURL |-> u, ProbDrop |-> p,
     PreDelayRate |-> pre.rate, PreDelayMax |-> pre.max,
     PostDelayRate |-> post.rate, PostDelayMax |-> post.max,
     Seed |-> sd]

BaseDelay == [rate |-> Rate(2, 0), max |-> Float(2 * FracDen + 2)]

\* The configurations a transport is built from.  The delay closures read
\* the four delay fields only, and nothing but MakeProxy reads DestURL;
\* ProbDrop and Seed are read nowhere.  So the delay fields vary, in every
\* combination, around one destination, ProbDrop and Seed, and these three
\* vary, in every combination, around one pair of delays.
Configs ==
    { Config(AbsURL, 0, pre, post, 7) : pre \in DelayParams, post \in DelayParams }
    \cup
    { Config(u, p, BaseDelay, BaseDelay, sd) :
        u \in DestURLs, p \in ProbDrops, sd \in Seeds }

\* the Host of the inbound request q: the requests do not all come for the
\* same host
HostOf(q) == IF q % 2 = 1 THEN "client.example" ELSE "other.example"

\* what the underlying transport's RoundTrip can return
TransportOutcomes ==
    { [resp |-> "200 OK", err |-> Nil],
      [resp |-> Nil, err |-> "connection refused"] }

\* ------------------------------------------------------------------------
\* State

VARIABLES
    cfg,         \* cfg[t]: the *ProxyConfig the transport t was built from
    procOf,      \* procOf[t]: the process the transport t lives in
    globalRand,  \* globalRand[p]: state of the rand package's source in process p
    rngLock,     \* rngLock[p]: the roundTrip holding the lock of that source
    proxy,       \* proxy[t]: what MakeProxy returned, and what its closures captured
    req          \* req[t][q]: request q through t: its position and its locals

vars == <<cfg, procOf, globalRand, rngLock, proxy, req>>

\* the process the transport t lives in
ProcOf(t) == procOf[t]

NoURL == [err |-> Nil, Scheme |-> <<>>, Host |-> <<>>, Path |-> <<>>]

NoRng == [Rate |-> Rate(0, 0)]

NoProxy == [state |-> "none", err |-> Nil, u |-> NoURL, preRng |-> NoRng, postRng |-> NoRng]

\* no *http.Request
NoRequest == [Scheme |-> <<>>, URLHost |-> <<>>, Host |-> ""]

NoResults == [resp |-> Nil, err |-> Nil]

\* nobody holds the lock
NoHolder == <<>>

\* log: the steps roundTrip has taken for the request, in the order taken;
\* cancelled: the wait the caller cancelled the request in, if any
NoReq ==
    [pc |-> "idle", In |-> "", Out |-> NoRequest, d |-> ZeroDuration,
     drawn |-> NoDraw, ndraw |-> 0, calls |-> 0, sent |-> NoRequest,
     resp |-> Nil, err |-> Nil, ret |-> NoResults, log |-> <<>>,
     cancelled |-> ""]

Init ==
    /\ \E c \in Configs : cfg = [t \in Transports |-> c]
    /\ procOf = [t \in Transports |-> t]
    /\ \E st \in RngStates : globalRand = [t \in Transports |-> st]
    /\ rngLock = [t \in Transports |-> NoHolder]
    /\ proxy = [t \in Transports |-> NoProxy]
    /\ req = [t \in Transports |-> [q \in Reqs |-> NoReq]]

\* ------------------------------------------------------------------------
\* MakeRoundTripper: the generators and the two delay closures

MakeRoundTripper(c) ==
    [preRng  |-> [Rate |-> c.PreDelayRate],
     postRng |-> [Rate |-> c.PostDelayRate]]

\* what follows the fast path in both closures: one draw from the generator
\* rng with the source at st, clamped to max and converted
Sample(rng, max, st) ==
    LET s0 == Rand(rng, st)
        s  == IF FloatGt(s0, max) THEN max ELSE s0
    IN  [d |-> ToDuration(s), drawn |-> s0, ndraw |-> 1]

\* Sample, worked out once for every generator, maximum and state of the
\* source the closures can meet
Samples ==
    [rng \in { [Rate |-> dl.rate] : dl \in { x \in DelayParams : x.rate.num >= 0 } },
     max \in { dl.max : dl \in DelayParams },
     st \in RngStates |-> Sample(rng, max, st)]

\* preDelay with the fast path taken for rate < 0 only
preDelayStrict(t) ==
    IF cfg[t].PreDelayRate.num < 0
    THEN [d |-> ZeroDuration, drawn |-> NoDraw, ndraw |-> 0]
    ELSE LET s0 == Rand(proxy[t].preRng, globalRand[ProcOf(t)])
             s  == IF FloatGt(s0, cfg[t].PreDelayMax) THEN cfg[t].PreDelayMax ELSE s0
         IN  [d |-> ToDuration(s), drawn |-> s0, ndraw |-> 1]

\* the closure preDelay: the duration d, the value drawn (if any) and the
\* number of draws made from the generator
preDelay(t) ==
    IF RateLeq0(cfg[t].PreDelayRate)
    THEN [d |-> ZeroDuration, drawn |-> NoDraw, ndraw |-> 0]
    ELSE Samples[proxy[t].preRng, cfg[t].PreDelayMax, globalRand[ProcOf(t)]]

\* postDelay that draws again, once, when the first draw exceeds the maximum
postDelayResample(t) ==
    IF RateLeq0(cfg[t].PostDelayRate)
    THEN [d |-> ZeroDuration, drawn |-> NoDraw, ndraw |-> 0]
    ELSE LET st == globalRand[ProcOf(t)]
             s0 == Rand(proxy[t].postRng, st)
             s1 == Rand(proxy[t].postRng, RngNext(st))
         IN  IF FloatGt(s0, cfg[t].PostDelayMax)
             THEN [d |-> ToDuration(IF FloatGt(s1, cfg[t].PostDelayMax)
                                    THEN cfg[t].PostDelayMax ELSE s1),
                   drawn |-> s0, ndraw |-> 2]
             ELSE [d |-> ToDuration(s0), drawn |-> s0, ndraw |-> 1]

\* the closure postDelay
postDelay(t) ==
    IF RateLeq0(cfg[t].PostDelayRate)
    THEN [d |-> ZeroDuration, drawn |-> NoDraw, ndraw |-> 0]
    ELSE Samples[proxy[t].postRng, cfg[t].PostDelayMax, globalRand[ProcOf(t)]]

RECURSIVE RngAdvance(_, _)
\* the source after n draws
RngAdvance(st, n) == IF n = 0 THEN st ELSE RngAdvance(RngNext(st), n - 1)

\* Lock that does not wait for the holder to release
LockNoWait(p, h) ==
    rngLock' = [rngLock EXCEPT ![p] = h]

\* Rand() with Src == nil draws from the rand package's source of the
\* process, which is guarded by a mutex: h waits until nobody holds it
Lock(p, h) ==
    /\ rngLock[p] = NoHolder
    /\ rngLock' = [rngLock EXCEPT ![p] = h]

\* the draw is made: the holder releases the source
Unlock(p) ==
    rngLock' = [rngLock EXCEPT ![p] = NoHolder]

\* ------------------------------------------------------------------------
\* MakeProxy

MakeProxy(t) ==
    /\ proxy[t].state = "none"
    /\ LET u == urlParse(cfg[t].DestURL)
       IN  IF u.err # Nil
           THEN proxy' = [proxy EXCEPT ![t] = [NoProxy EXCEPT !.state = "failed", !.err = u.err]]
           ELSE LET rt == MakeRoundTripper(cfg[t])
                IN  proxy' = [proxy EXCEPT ![t] =
                        [state |-> "ok", err |-> Nil, u |-> u,
                         preRng |-> rt.preRng, postRng |-> rt.postRng]]
    /\ UNCHANGED <<cfg, procOf, globalRand, rngLock, req>>

\* Rewrite without the assignment to Out.Host: SetURL leaves it empty
RewriteSetURLOnly(u, in) ==
    [Scheme |-> u.Scheme, URLHost |-> u.Host, Host |-> ""]

\* the Rewrite function of the ReverseProxy: SetURL(u), then Out.Host = In.Host
Rewrite(u, in) ==
    [Scheme |-> u.Scheme, URLHost |-> u.Host, Host |-> in.Host]

\* ------------------------------------------------------------------------
\* One request through the proxy's transport

\* ServeHTTP rewrites the inbound request and calls roundTrip, which calls
\* preDelay: on the fast path the pre-delay is sampled at once and roundTrip
\* goes to sleep; otherwise Rand() takes the lock of the source
Incoming(t, q, host) ==
    /\ proxy[t].state = "ok"
    /\ req[t][q].pc = "idle"
    /\ LET in  == [Host |-> host]
           smp == preDelay(t)
       IN  IF smp.ndraw = 0
           THEN /\ req' = [req EXCEPT ![t][q] =
                            [@ EXCEPT !.pc = "preSleep", !.In = host,
                                      !.Out = Rewrite(proxy[t].u, in),
                                      !.d = smp.d, !.drawn = smp.drawn,
                                      !.ndraw = smp.ndraw,
                                      !.log = <<"preSample">>]]
                /\ UNCHANGED rngLock
           ELSE /\ Lock(ProcOf(t), <<t, q>>)
                /\ req' = [req EXCEPT ![t][q] =
                            [@ EXCEPT !.pc = "preDraw", !.In = host,
                                      !.Out = Rewrite(proxy[t].u, in)]]
    /\ UNCHANGED <<cfg, procOf, globalRand, proxy>>

\* PreDraw that sleeps with the lock of the source still held
PreDrawLocked(t, q) ==
    /\ req[t][q].pc = "preDraw"
    /\ LET smp == preDelay(t)
       IN  /\ req' = [req EXCEPT ![t][q] =
                        [@ EXCEPT !.pc = "preSleep", !.d = smp.d,
                                  !.drawn = smp.drawn, !.ndraw = smp.ndraw,
                                  !.log = Append(@, "preSample")]]
           /\ globalRand' = [globalRand EXCEPT ![ProcOf(t)] = RngAdvance(@, smp.ndraw)]
    /\ UNCHANGED <<cfg, procOf, rngLock, proxy>>

\* preDelay draws, releases the source and returns the pre-delay; roundTrip
\* goes to sleep
PreDraw(t, q) ==
    /\ req[t][q].pc = "preDraw"
    /\ LET smp == preDelay(t)
       IN  /\ req' = [req EXCEPT ![t][q] =
                        [@ EXCEPT !.pc = "preSleep", !.d = smp.d,
                                  !.drawn = smp.drawn, !.ndraw = smp.ndraw,
                                  !.log = Append(@, "preSample")]]
           /\ globalRand' = [globalRand EXCEPT ![ProcOf(t)] = RngAdvance(@, smp.ndraw)]
    /\ Unlock(ProcOf(t))
    /\ UNCHANGED <<cfg, procOf, proxy>>

\* values a uniform draw in [0, 1) can take, in hundredths
UniformDraws == {0, 50, 99}

\* Forward with a drop decision wired in as draw <= ProbDrop
ForwardDropLeq(t, q) ==
    /\ req[t][q].pc = "preSleep"
    /\ \E u \in UniformDraws :
          IF u <= cfg[t].ProbDrop
          THEN /\ req' = [req EXCEPT ![t][q] =
                           [@ EXCEPT !.pc = "postSleep", !.err = "dropped",
                                     !.d = ZeroDuration, !.drawn = NoDraw,
                                     !.ndraw = 0]]
          ELSE /\ req' = [req EXCEPT ![t][q] =
                           [@ EXCEPT !.pc = "inTransport",
                                     !.sent = req[t][q].Out, !.calls = @ + 1]]
    /\ UNCHANGED <<cfg, procOf, globalRand, rngLock, proxy>>

\* Forward that hands the request over first and sleeps afterwards
ForwardEarly(t, q) ==
    /\ req[t][q].pc = "preSleep"
    /\ req' = [req EXCEPT ![t][q] =
                 [@ EXCEPT !.pc = "inTransport", !.sent = req[t][q].Out,
                           !.calls = @ + 1,
                           !.log = @ \o <<"forward", "preWake">>]]
    /\ UNCHANGED <<cfg, procOf, globalRand, rngLock, proxy>>

\* the pre-delay sleep ends; the request is handed to the underlying transport
Forward(t, q) ==
    /\ req[t][q].pc = "preSleep"
    /\ req' = [req EXCEPT ![t][q] =
                 [@ EXCEPT !.pc = "inTransport", !.sent = req[t][q].Out,
                           !.calls = @ + 1,
                           !.log = @ \o <<"preWake", "forward">>]]
    /\ UNCHANGED <<cfg, procOf, globalRand, rngLock, proxy>>

\* Receive that calls the underlying transport again when it returned an error
ReceiveRetry(t, q, o) ==
    /\ req[t][q].pc = "inTransport"
    /\ IF o.err # Nil /\ req[t][q].calls < 2
       THEN /\ req' = [req EXCEPT ![t][q] = [@ EXCEPT !.calls = @ + 1]]
            /\ UNCHANGED rngLock
       ELSE LET smp == postDelay(t)
            IN  IF smp.ndraw = 0
                THEN /\ req' = [req EXCEPT ![t][q] =
                                 [@ EXCEPT !.pc = "postSleep", !.resp = o.resp,
                                           !.err = o.err, !.d = smp.d,
                                           !.drawn = smp.drawn, !.ndraw = smp.ndraw,
                                           !.log = @ \o <<"transportReturn", "postSample">>]]
                     /\ UNCHANGED rngLock
                ELSE /\ Lock(ProcOf(t), <<t, q>>)
                     /\ req' = [req EXCEPT ![t][q] =
                                 [@ EXCEPT !.pc = "postDraw", !.resp = o.resp,
                                           !.err = o.err,
                                           !.log = Append(@, "transportReturn")]]
    /\ UNCHANGED <<cfg, procOf, globalRand, proxy>>

\* Receive that returns an error of the underlying transport at once
ReceiveErrReturns(t, q, o) ==
    /\ req[t][q].pc = "inTransport"
    /\ LET smp == postDelay(t)
       IN  IF o.err # Nil
           THEN /\ req' = [req EXCEPT ![t][q] =
                            [@ EXCEPT !.pc = "done", !.resp = o.resp,
                                      !.err = o.err, !.ret = o,
                                      !.log = @ \o <<"transportReturn", "return">>]]
                /\ UNCHANGED rngLock
           ELSE IF smp.ndraw = 0
           THEN /\ req' = [req EXCEPT ![t][q] =
                            [@ EXCEPT !.pc = "postSleep", !.resp = o.resp,
                                      !.err = o.err, !.d = smp.d,
                                      !.drawn = smp.drawn, !.ndraw = smp.ndraw,
                                      !.log = @ \o <<"transportReturn", "postSample">>]]
                /\ UNCHANGED rngLock
           ELSE /\ Lock(ProcOf(t), <<t, q>>)
                /\ req' = [req EXCEPT ![t][q] =
                            [@ EXCEPT !.pc = "postDraw", !.resp = o.resp,
                                      !.err = o.err,
                                      !.log = Append(@, "transportReturn")]]
    /\ UNCHANGED <<cfg, procOf, globalRand, proxy>>

\* the underlying transport returns o; roundTrip calls postDelay: on the
\* fast path the post-delay is sampled at once and roundTrip goes to sleep;
\* otherwise Rand() takes the lock of the source
Receive(t, q, o) ==
    /\ req[t][q].pc = "inTransport"
    /\ LET smp == postDelay(t)
       IN  IF smp.ndraw = 0
           THEN /\ req' = [req EXCEPT ![t][q] =
                            [@ EXCEPT !.pc = "postSleep", !.resp = o.resp,
                                      !.err = o.err, !.d = smp.d,
                                      !.drawn = smp.drawn, !.ndraw = smp.ndraw,
                                      !.log = @ \o <<"transportReturn", "postSample">>]]
                /\ UNCHANGED rngLock
           ELSE /\ Lock(ProcOf(t), <<t, q>>)
                /\ req' = [req EXCEPT ![t][q] =
                            [@ EXCEPT !.pc = "postDraw", !.resp = o.resp,
                                      !.err = o.err,
                                      !.log = Append(@, "transportReturn")]]
    /\ UNCHANGED <<cfg, procOf, globalRand, proxy>>

\* postDelay draws, releases the source and returns the post-delay;
\* roundTrip goes to sleep
PostDraw(t, q) ==
    /\ req[t][q].pc = "postDraw"
    /\ LET smp == postDelay(t)
       IN  /\ req' = [req EXCEPT ![t][q] =
                        [@ EXCEPT !.pc = "postSleep", !.d = smp.d,
                                  !.drawn = smp.drawn, !.ndraw = smp.ndraw,
                                  !.log = Append(@, "postSample")]]
           /\ globalRand' = [globalRand EXCEPT ![ProcOf(t)] = RngAdvance(@, smp.ndraw)]
    /\ Unlock(ProcOf(t))
    /\ UNCHANGED <<cfg, procOf, proxy>>

\* Return that waits for ever on a negative duration
ReturnNonNegative(t, q) ==
    /\ req[t][q].pc = "postSleep"
    /\ ~DurationNeg(req[t][q].d)
    /\ req' = [req EXCEPT ![t][q] =
                 [@ EXCEPT !.pc = "done", !.ret = [resp |-> @.resp, err |-> @.err],
                           !.d = ZeroDuration, !.drawn = NoDraw, !.ndraw = 0,
                           !.log = @ \o <<"postWake", "return">>]]
    /\ UNCHANGED <<cfg, procOf, globalRand, rngLock, proxy>>

\* Results with the error wrapped
ResultsWrapped(r) ==
    [resp |-> r.resp, err |-> IF r.err = Nil THEN Nil ELSE "proxy error"]

\* what roundTrip returns: resp, err as captured
Results(r) == [resp |-> r.resp, err |-> r.err]

\* the post-delay sleep ends; roundTrip returns and its local d is gone
Return(t, q) ==
    /\ req[t][q].pc = "postSleep"
    /\ req' = [req EXCEPT ![t][q] =
                 [@ EXCEPT !.pc = "done", !.ret = Results(req[t][q]),
                           !.d = ZeroDuration, !.drawn = NoDraw, !.ndraw = 0,
                           !.log = @ \o <<"postWake", "return">>]]
    /\ UNCHANGED <<cfg, procOf, globalRand, rngLock, proxy>>

Next ==
    \/ MakeProxy("A")
    \/ \E q \in Reqs : Incoming("A", q, HostOf(q))
    \/ \E q \in Reqs : PreDraw("A", q)
    \/ \E q \in Reqs : Forward("A", q)
    \/ \E q \in Reqs : \E o \in TransportOutcomes : Receive("A", q, o)
    \/ \E q \in Reqs : PostDraw("A", q)
    \/ \E q \in Reqs : Return("A", q)

Spec == Init /\ [][Next]_vars

\* ------------------------------------------------------------------------
\* Two independent runs of the program, each in its own process, built from
\* identical configuration with a nonzero Seed and given the same sequence
\* of requests, one after the other.  Nothing in MakeRoundTripper reads
\* cfg.Seed or sets the Src of the generators, so where the source of each
\* process stands when the run begins is not fixed by the configuration.

RunConfigs ==
    { c \in Configs :
        /\ c.Seed # 0
        /\ c.DestURL = AbsURL
        /\ c.ProbDrop = 0
        /\ c.PostDelayRate = c.PreDelayRate
        /\ c.PostDelayMax = c.PreDelayMax }

InitRuns ==
    /\ \E c \in RunConfigs : cfg = [t \in Transports |-> c]
    /\ procOf = [t \in Transports |-> t]
    /\ globalRand \in [Transports -> RngStates]
    /\ rngLock = [t \in Transports |-> NoHolder]
    /\ proxy = [t \in Transports |-> NoProxy]
    /\ req = [t \in Transports |-> [q \in Reqs |-> NoReq]]

\* request q is next in the sequence of run t
SeqReady(t, q) ==
    \A p \in Reqs :
        /\ p < q => req[t][p].pc = "done"
        /\ p > q => req[t][p].pc = "idle"

NextRuns ==
    \E t \in Transports :
        \/ MakeProxy(t)
        \/ \E q \in Reqs : SeqReady(t, q) /\ Incoming(t, q, HostOf(q))
        \/ \E q \in Reqs : PreDraw(t, q)
        \/ \E q \in Reqs : Forward(t, q)
        \/ \E q \in Reqs : \E o \in TransportOutcomes : Receive(t, q, o)
        \/ \E q \in Reqs : PostDraw(t, q)
        \/ \E q \in Reqs : Return(t, q)

SpecRuns == InitRuns /\ [][NextRuns]_vars

\* ------------------------------------------------------------------------
\* Properties

\* roundTrip of request q through t has gone past its pre-delay sleep
PastPreDelay(t, q) == req[t][q].pc \in {"inTransport", "postSleep", "done"}

\* request q through t holds a freshly sampled pre-delay in d
PreSampled(t, q) == req[t][q].pc \in {"preSleep", "inTransport"}

\* request q through t holds a freshly sampled post-delay in d
PostSampled(t, q) == req[t][q].pc = "postSleep"

\* every uniform draw in [0, 1) is below ProbDrop: the drop decision
\* triggers for every request
DropCertain(t) == \A u \in UniformDraws : u < cfg[t].ProbDrop

\* C1: with ProbDrop = 1 every request is dropped, so the underlying
\* transport's RoundTrip is never invoked for any request, in any
\* interleaving of the requests.
C1_DropAllNeverForwards ==
    \A t \in Transports : \A q \in Reqs :
        cfg[t].ProbDrop = 100 =>
            /\ req[t][q].calls = 0
            /\ req[t][q].sent = NoRequest

\* C2: when the drop decision triggers for a request, roundTrip skips the
\* forward and returns a synthesized drop outcome that differs from every
\* (response, error) the underlying transport can return.
C2_DropOutcomeDistinct ==
    \A t \in Transports : \A q \in Reqs :
        DropCertain(t) /\ req[t][q].pc = "done" =>
            req[t][q].ret \notin TransportOutcomes

\* C3: for every request that is not dropped, roundTrip returns exactly the
\* (response, error) pair the underlying transport returned for it, for
\* responses and errors alike, and the request handed to the underlying
\* transport is the request roundTrip received, unmodified.
C3_ResultsVerbatim ==
    \A t \in Transports : \A q \in Reqs :
        /\ req[t][q].calls > 0 => req[t][q].sent = req[t][q].Out
        /\ req[t][q].pc = "done" /\ req[t][q].calls > 0 =>
              /\ req[t][q].ret.resp = req[t][q].resp
              /\ req[t][q].ret.err = req[t][q].err
              /\ req[t][q].ret \in TransportOutcomes

C3_Witness ==
    \E q, p \in Reqs :
        /\ req["A"][q].pc = "done"
        /\ req["A"][q].ret = [resp |-> Nil, err |-> "connection refused"]
        /\ req["A"][p].pc = "done"
        /\ req["A"][p].ret = [resp |-> "200 OK", err |-> Nil]
        /\ req["A"][p].sent.Host = "client.example"

\* C4: for a fixed nonzero seed, two independent runs built from identical
\* configuration and given the same sequence of requests sample identical
\* sequences of pre- and post-delays: whenever the two runs stand at the
\* same sample of the same request, the sampled delays are equal.
C4_SeededRunsAgree ==
    (cfg["A"] = cfg["B"] /\ cfg["A"].Seed # 0) =>
        \A q \in Reqs :
            /\ req["A"][q].pc = req["B"][q].pc
            /\ req["A"][q].pc \in {"preSleep", "postSleep"}
            => req["A"][q].d = req["B"][q].d

\* C5: with PreDelayRate <= 0 the pre-delay of every request is exactly zero
\* and no value is drawn from the generator for it; the same for
\* PostDelayRate <= 0 and the post-delay.
C5_ZeroRateNoDelayNoDraw ==
    \A t \in Transports : \A q \in Reqs :
        /\ PreSampled(t, q) /\ RateLeq0(cfg[t].PreDelayRate) =>
              req[t][q].d = ZeroDuration /\ req[t][q].ndraw = 0
        /\ PostSampled(t, q) /\ RateLeq0(cfg[t].PostDelayRate) =>
              req[t][q].d = ZeroDuration /\ req[t][q].ndraw = 0

C5_Witness ==
    \E q, p \in Reqs :
        /\ cfg["A"].PreDelayRate.num = 0
        /\ cfg["A"].PostDelayRate.num < 0
        /\ req["A"][q].pc = "preSleep"
        /\ req["A"][p].pc = "postSleep"

\* C6: with rate > 0 and max >= 0, every pre-delay and every post-delay
\* applied to a request lies in [0, max] of its maximum, whatever the
\* exponential draw was.
C6_DelayWithinMax ==
    \A t \in Transports : \A q \in Reqs :
        /\ PreSampled(t, q) /\ ~RateLeq0(cfg[t].PreDelayRate) =>
              DurationIn(req[t][q].d, cfg[t].PreDelayMax)
        /\ PostSampled(t, q) /\ ~RateLeq0(cfg[t].PostDelayRate) =>
              DurationIn(req[t][q].d, cfg[t].PostDelayMax)

\* C7 as stated: when rate > 0 and the draw exceeds max, the delay returned
\* is exactly max, from that single draw.
C7_ClampedDelayIsMax ==
    \A t \in Transports : \A q \in Reqs :
        /\ /\ PreSampled(t, q) /\ ~RateLeq0(cfg[t].PreDelayRate)
           /\ FloatGt(req[t][q].drawn, cfg[t].PreDelayMax)
           => DurationIs(req[t][q].d, cfg[t].PreDelayMax) /\ req[t][q].ndraw = 1
        /\ /\ PostSampled(t, q) /\ ~RateLeq0(cfg[t].PostDelayRate)
           /\ FloatGt(req[t][q].drawn, cfg[t].PostDelayMax)
           => DurationIs(req[t][q].d, cfg[t].PostDelayMax) /\ req[t][q].ndraw = 1

\* C7 as amended: when rate > 0 and the draw exceeds max, the sample is
\* clamped to max and the delay returned is the duration max itself converts
\* to (max truncated toward zero to whole milliseconds, as an int64 of
\* nanoseconds), from that single draw: the generator is not drawn from a
\* second time.
C7_ClampedDelayIsMaxConverted ==
    \A t \in Transports : \A q \in Reqs :
        /\ /\ PreSampled(t, q) /\ ~RateLeq0(cfg[t].PreDelayRate)
           /\ FloatGt(req[t][q].drawn, cfg[t].PreDelayMax)
           => /\ req[t][q].d = ToDuration(cfg[t].PreDelayMax)
              /\ req[t][q].ndraw = 1
        /\ /\ PostSampled(t, q) /\ ~RateLeq0(cfg[t].PostDelayRate)
           /\ FloatGt(req[t][q].drawn, cfg[t].PostDelayMax)
           => /\ req[t][q].d = ToDuration(cfg[t].PostDelayMax)
              /\ req[t][q].ndraw = 1

C7_Witness ==
    \E q, p \in Reqs :
        /\ ~RateLeq0(cfg["A"].PreDelayRate)
        /\ ~RateLeq0(cfg["A"].PostDelayRate)
        /\ req["A"][q].pc = "preSleep"
        /\ FloatGt(req["A"][q].drawn, cfg["A"].PreDelayMax)
        /\ req["A"][p].pc = "postSleep"
        /\ FloatGt(req["A"][p].drawn, cfg["A"].PostDelayMax)
        /\ req["A"][p].d # ZeroDuration

\* C8: no request is retried: for each call of roundTrip the underlying
\* transport's RoundTrip is invoked at most once, also when it returns an
\* error.
C8_NoRetry ==
    \A t \in Transports : \A q \in Reqs :
        /\ req[t][q].calls <= 1
        /\ req[t][q].pc \in {"postSleep", "done"} /\ req[t][q].err # Nil =>
              req[t][q].calls = 1

C8_Witness ==
    \E q \in Reqs :
        /\ req["A"][q].pc = "done"
        /\ req["A"][q].ret.err = "connection refused"
        /\ req["A"][q].calls = 1

\* C9: with ProbDrop = 0 no request is ever dropped: every roundTrip that is
\* past its pre-delay has handed the request to the underlying transport,
\* and what it returns is an outcome of that transport.
C9_NoDropAtZero ==
    \A t \in Transports : \A q \in Reqs :
        cfg[t].ProbDrop = 0 =>
            /\ PastPreDelay(t, q) =>
                  req[t][q].calls = 1 /\ req[t][q].sent = req[t][q].Out
            /\ req[t][q].pc = "done" => req[t][q].ret \in TransportOutcomes

C9_Witness ==
    /\ cfg["A"].ProbDrop = 0
    /\ \A q \in Reqs : req["A"][q].pc = "done" /\ req["A"][q].calls = 1

\* C10: MakeProxy with a destination that does not parse as an absolute URL
\* fails at construction and returns no handler, so no request is ever
\* handled by a proxy built from such a destination.
C10_BadDestinationNoHandler ==
    \A t \in Transports :
        LET u == urlParse(cfg[t].DestURL)
        IN  (u.err # Nil \/ ~IsAbs(u)) =>
                /\ proxy[t].state # "ok"
                /\ \A q \in Reqs : req[t][q].pc = "idle"

\* C11: for every inbound request the assembled proxy handles, the outbound
\* request's scheme and host are those of the configured destination, and
\* its Host is the host of the inbound request, not the destination's; the
\* request handed to the underlying transport carries the same three.
C11_OutboundDestinationAndHost ==
    \A t \in Transports : \A q \in Reqs :
        LET u == urlParse(cfg[t].DestURL)
        IN  /\ req[t][q].pc # "idle" =>
                  /\ req[t][q].Out.Scheme = u.Scheme
                  /\ req[t][q].Out.URLHost = u.Host
                  /\ req[t][q].Out.Host = HostOf(q)
            /\ req[t][q].calls > 0 =>
                  /\ req[t][q].sent.Scheme = u.Scheme
                  /\ req[t][q].sent.URLHost = u.Host
                  /\ req[t][q].sent.Host = HostOf(q)

C11_Witness ==
    \E q, p \in Reqs :
        /\ cfg["A"].DestURL = AbsURL
        /\ req["A"][q].calls = 1
        /\ req["A"][q].sent = [Scheme |-> <<"h", "t", "t", "p">>,
                               URLHost |-> <<"d">>, Host |-> "client.example"]
        /\ req["A"][p].calls = 1
        /\ req["A"][p].sent.URLHost = <<"d">>
        /\ req["A"][p].sent.Host = "other.example"

\* request q through t is inside Rand(), between taking the lock of the
\* source and releasing it
InDraw(t, q) == req[t][q].pc \in {"preDraw", "postDraw"}

\* C12: the sampling state shared by concurrent requests is never accessed
\* by two requests at the same time: at most one roundTrip of a process is
\* inside a draw, for the pre-delay or for the post-delay, and it is the
\* one holding the lock of the source.
C12_DrawsMutuallyExclusive ==
    \A t \in Transports : \A q \in Reqs :
        InDraw(t, q) =>
            /\ rngLock[ProcOf(t)] = <<t, q>>
            /\ \A s \in Transports : \A p \in Reqs :
                  InDraw(s, p) /\ ProcOf(s) = ProcOf(t) => <<s, p>> = <<t, q>>

C12_Witness ==
    \E q, p \in Reqs :
        /\ q # p
        /\ req["A"][q].pc = "postDraw"
        /\ req["A"][p].pc = "inTransport"
        /\ ~RateLeq0(cfg["A"].PostDelayRate)

\* ------------------------------------------------------------------------
\* The caller cancels a request while roundTrip sleeps.  roundTrip sleeps in
\* time.Sleep, which does not watch the request's context: the cancellation
\* is recorded with the request and nothing else happens.

Cancel(t, q) ==
    /\ req[t][q].pc \in {"preSleep", "postSleep"}
    /\ req[t][q].cancelled = ""
    /\ req' = [req EXCEPT ![t][q] = [@ EXCEPT !.cancelled = req[t][q].pc]]
    /\ UNCHANGED <<cfg, procOf, globalRand, rngLock, proxy>>

NextCancel ==
    \/ Next
    \/ \E q \in Reqs : Cancel("A", q)

SpecCancel == Init /\ [][NextCancel]_vars

\* C13: a request cancelled during the pre-delay wait is never handed to the
\* underlying transport, and a roundTrip cancelled during either wait takes
\* none of the remaining steps and returns a cancellation failure, which is
\* none of the outcomes of the underlying transport.
C13_CancelEndsWait ==
    \A t \in Transports : \A q \in Reqs :
        /\ req[t][q].cancelled = "preSleep" =>
              /\ req[t][q].calls = 0
              /\ req[t][q].pc \in {"preSleep", "done"}
        /\ req[t][q].cancelled # "" /\ req[t][q].pc = "done" =>
              req[t][q].ret \notin TransportOutcomes

\* the steps of roundTrip for one request, in the order of the code
StepOrder ==
    <<"preSample", "preWake", "forward", "transportReturn",
      "postSample", "postWake", "return">>

IsPrefix(s, r) == Len(s) <= Len(r) /\ SubSeq(r, 1, Len(s)) = s

\* C14: for every single request the steps of roundTrip happen strictly in
\* the order of the protocol and each at most once, all of them exactly once
\* by the time it returns: the pre-delay is sampled and its wait ends before
\* the request is handed to the underlying transport, the transport returns
\* before the post-delay is sampled and waited, and the post-delay wait ends
\* before roundTrip returns.
C14_StepsInOrderOnce ==
    \A t \in Transports : \A q \in Reqs :
        /\ IsPrefix(req[t][q].log, StepOrder)
        /\ req[t][q].pc = "done" <=> req[t][q].log = StepOrder
        /\ req[t][q].pc = "inTransport" <=> Len(req[t][q].log) = 3
        /\ req[t][q].calls = (IF Len(req[t][q].log) >= 3 THEN 1 ELSE 0)

C14_Witness ==
    \E q, p \in Reqs :
        /\ ~RateLeq0(cfg["A"].PreDelayRate)
        /\ ~RateLeq0(cfg["A"].PostDelayRate)
        /\ req["A"][q].log = StepOrder
        /\ req["A"][p].pc = "postDraw"
        /\ req["A"][p].log = SubSeq(StepOrder, 1, 4)

\* C15: the post-delay is sampled and waited for every request before
\* roundTrip returns, whether the underlying transport returned a response
\* or an error: no roundTrip returns without the post-delay sampled and its
\* wait ended after the transport returned.
C15_PostDelayBeforeEveryReturn ==
    \A t \in Transports : \A q \in Reqs :
        req[t][q].pc = "done" =>
            \E i, j \in 1..Len(req[t][q].log) :
                /\ i < j
                /\ j < Len(req[t][q].log)
                /\ req[t][q].log[i] = "postSample"
                /\ req[t][q].log[j] = "postWake"
                /\ req[t][q].log[Len(req[t][q].log)] = "return"

C15_Witness ==
    \E q, p \in Reqs :
        /\ ~RateLeq0(cfg["A"].PostDelayRate)
        /\ req["A"][q].pc = "done"
        /\ req["A"][q].ret.err = "connection refused"
        /\ req["A"][p].pc = "done"
        /\ req["A"][p].ret.resp = "200 OK"

\* some step of roundTrip for request q through t
StepOf(t, q) ==
    \/ Incoming(t, q, HostOf(q))
    \/ PreDraw(t, q)
    \/ Forward(t, q)
    \/ \E o \in TransportOutcomes : Receive(t, q, o)
    \/ PostDraw(t, q)
    \/ Return(t, q)

Sleeping(t, q) == req[t][q].pc \in {"preSleep", "postSleep"}

\* C16: a request in its pre-delay or post-delay wait holds no lock and
\* blocks no other request: while it waits, every other roundTrip that has
\* not returned can take its next step, unless a third request is inside a
\* draw.
C16_SleeperBlocksNobody ==
    \A t \in Transports : \A q \in Reqs :
        Sleeping(t, q) =>
            /\ rngLock[ProcOf(t)] # <<t, q>>
            /\ \A p \in Reqs \ {q} :
                  /\ req[t][p].pc # "done"
                  /\ \A r \in Reqs \ {q, p} : ~InDraw(t, r)
                  => ENABLED StepOf(t, p)

C16_Witness ==
    \E q, p \in Reqs :
        /\ req["A"][q].pc = "preSleep"
        /\ req["A"][q].ndraw = 1
        /\ req["A"][q].d # ZeroDuration
        /\ req["A"][p].pc = "preDraw"

\* ------------------------------------------------------------------------
\* Two proxies built in one process, each from its own configuration, each
\* given its requests one after the other.  The generators of both have Src
\* nil: both draw from the one source of the process.

SharedConfigs ==
    { c \in Configs :
        /\ c.DestURL = AbsURL
        /\ c.ProbDrop = 0
        /\ c.Seed = 7
        /\ c.PreDelayRate \in {Rate(0, 0), Rate(2, 0)}
        /\ c.PostDelayRate \in {Rate(0, 0), Rate(2, 0)}
        /\ c.PreDelayMax = c.PostDelayMax }

InitShared ==
    /\ cfg \in [Transports -> SharedConfigs]
    /\ procOf = [t \in Transports |-> "A"]
    /\ \E st \in RngStates : globalRand = [t \in Transports |-> st]
    /\ rngLock = [t \in Transports |-> NoHolder]
    /\ proxy = [t \in Transports |-> NoProxy]
    /\ req = [t \in Transports |-> [q \in Reqs |-> NoReq]]

SpecShared == InitShared /\ [][NextRuns]_vars

\* C17: the delay generator of a proxy is not shared with another,
\* independently configured proxy: a step in which proxy B handles nothing
\* leaves the source B's delays are drawn from where it was, so draws made
\* through proxy A never change the delay sequence of B.
C17_OtherProxyKeepsSequence ==
    [][ (req'["B"] = req["B"] /\ proxy'["B"] = proxy["B"]) =>
            globalRand'[ProcOf("B")] = globalRand[ProcOf("B")] ]_vars

\* the duration d is the float64 s of milliseconds, truncated toward zero to
\* whole milliseconds
DurationIsWholeMs(d, s) ==
    /\ ~DurationNeg(d)
    /\ NatCmp(d, NatMul(NatMul(NatDiv(s, FracDen), 1000), 1000)) = 0

\* min(draw, max)
Clamped(drawn, max) == IF FloatGt(drawn, max) THEN max ELSE drawn

\* C18: with rate > 0 the delay applied is min(draw, max) milliseconds
\* truncated toward zero to whole milliseconds, so a clamped value below 1
\* gives a delay of exactly zero.
C18_DelayIsTruncatedClamp ==
    \A t \in Transports : \A q \in Reqs :
        /\ PreSampled(t, q) /\ ~RateLeq0(cfg[t].PreDelayRate) =>
              LET s == Clamped(req[t][q].drawn, cfg[t].PreDelayMax)
              IN  /\ DurationIsWholeMs(req[t][q].d, s)
                  /\ NatCmp(s, Float(FracDen)) < 0 => req[t][q].d = ZeroDuration
        /\ PostSampled(t, q) /\ ~RateLeq0(cfg[t].PostDelayRate) =>
              LET s == Clamped(req[t][q].drawn, cfg[t].PostDelayMax)
              IN  /\ DurationIsWholeMs(req[t][q].d, s)
                  /\ NatCmp(s, Float(FracDen)) < 0 => req[t][q].d = ZeroDuration

\* ------------------------------------------------------------------------
\* The caller keeps the *ProxyConfig it built the proxy from and writes to
\* one of its fields afterwards.  The closures read cfg.PreDelayRate and
\* cfg.PreDelayMax through the pointer each time they run; the Rate of the
\* generator was copied when the proxy was built.  A write that lands
\* while a closure runs is seen by each of its reads either in full or not
\* at all, which is the same as a write before or after the closure.

MutableDelays == { dl \in DelayParams : dl.rate \in {Rate(0, 0), Rate(2, 0)} }

MutateConfigs == { Config(AbsURL, 0, pre, BaseDelay, 7) : pre \in MutableDelays }

MutateCfg(t, pre) ==
    /\ proxy[t].state = "ok"
    /\ \A q \in Reqs : ~InDraw(t, q)
    /\ \/ /\ cfg[t].PreDelayRate # pre.rate
          /\ cfg' = [cfg EXCEPT ![t].PreDelayRate = pre.rate]
       \/ /\ cfg[t].PreDelayMax # pre.max
          /\ cfg' = [cfg EXCEPT ![t].PreDelayMax = pre.max]
    /\ UNCHANGED <<procOf, globalRand, rngLock, proxy, req>>

InitMutate ==
    /\ \E c \in MutateConfigs : cfg = [t \in Transports |-> c]
    /\ procOf = [t \in Transports |-> t]
    /\ \E st \in RngStates : globalRand = [t \in Transports |-> st]
    /\ rngLock = [t \in Transports |-> NoHolder]
    /\ proxy = [t \in Transports |-> NoProxy]
    /\ req = [t \in Transports |-> [q \in Reqs |-> NoReq]]

NextMutate ==
    \/ Next
    \/ \E pre \in MutableDelays : MutateCfg("A", pre)

SpecMutate == InitMutate /\ [][NextMutate]_vars

\* C19: the pre-delay of every request is the one the configuration the
\* transport was built from gives, whatever was written to the
\* configuration afterwards: built with rate <= 0 the pre-delay is zero and
\* nothing is drawn, built with rate > 0 it is sampled from one draw; that
\* is, the rate tested for the fast path is the rate the sampler draws with.
C19_DelaysFromConstructionConfig ==
    \A t \in Transports : \A q \in Reqs :
        PreSampled(t, q) =>
            IF RateLeq0(proxy[t].preRng.Rate)
            THEN req[t][q].d = ZeroDuration /\ req[t][q].ndraw = 0
            ELSE req[t][q].ndraw = 1 /\ req[t][q].drawn # Inf

\* ------------------------------------------------------------------------
\* Fair scheduling: a sleep ends, a draw is made and the source released,
\* and the underlying transport returns.

\* a step of roundTrip for request q through t, once it has been called
RoundTripStep(t, q) ==
    \/ PreDraw(t, q)
    \/ Forward(t, q)
    \/ \E o \in TransportOutcomes : Receive(t, q, o)
    \/ PostDraw(t, q)
    \/ Return(t, q)

Fairness == \A q \in Reqs : WF_vars(RoundTripStep("A", q))

\* the requests of one proxy, whose pre- and post-delay are configured alike:
\* fast path, clamped to zero, clamped to whole milliseconds, and wrapped
InitFair ==
    /\ \E c \in RunConfigs : cfg = [t \in Transports |-> c]
    /\ procOf = [t \in Transports |-> t]
    /\ \E st \in RngStates : globalRand = [t \in Transports |-> st]
    /\ rngLock = [t \in Transports |-> NoHolder]
    /\ proxy = [t \in Transports |-> NoProxy]
    /\ req = [t \in Transports |-> [q \in Reqs |-> NoReq]]

SpecFair == InitFair /\ [][Next]_vars /\ Fairness

\* C20: every call of roundTrip eventually returns, given that the
\* underlying transport returns: under fair scheduling no request stays for
\* ever in its pre-delay, in the forward or in its post-delay.
C20_EveryRoundTripReturns ==
    \A q \in Reqs : (req["A"][q].pc # "idle") ~> (req["A"][q].pc = "done")

C20_Witness ==
    /\ cfg["A"].PostDelayMax = HugeMax
    /\ ~RateLeq0(cfg["A"].PreDelayRate)
    /\ \A q \in Reqs : req["A"][q].pc = "done" /\ req["A"][q].calls = 1

====
